---- MODULE Spec2Model ----
(***************************************************************************)
(* Model of the AI Security Surveyor front end: the App component's        *)
(* session state and its asynchronous handlers (handleSubmit,              *)
(* handleZoomChange, handleGenerateReport, handleReset), the Imagery       *)
(* Client (getAerialViewFromAddress) and the Analysis Client               *)
(* (getSecurityAnalysis).                                                  *)
(*                                                                         *)
(* Every handler runs to its first await in one step; every awaited        *)
(* network call is a task whose resolution or rejection is a later step.   *)
(* React state setters write the current session state, while the values   *)
(* a handler closed over (location, newZoom, imageUrl) stay those captured *)
(* when the handler was invoked: they are kept in the task record.         *)
(***************************************************************************)
EXTENDS Integers, Sequences, FiniteSets, Bags, TLC

\* ------------------------------------------------------------------ bounds
NumLetters == 2
MaxPlacements == 1
MaxTasks == 4
\* generatePdfReport: lines the overview wraps to, placements, lines a
\* placement's reason wraps to, rows of the equipment summary
MaxOverviewLines == 18
MaxPdfPlacements == 7
MaxReasonLines == 38
MaxSummaryRows == 3

\* ------------------------------------------------------ program constants
MIN_ZOOM == 17
MAX_ZOOM == 21
INITIAL_ZOOM == 19

\* pdfGenerator
MARGIN == 15
LINE_HEIGHT == 7
\* new jsPDF('p', 'mm', 'a4'): the page in millimetres
A4_HEIGHT == 297
A4_WIDTH == 210

\* AnalysisStep
INPUT == "INPUT"
FETCHING_IMAGE == "FETCHING_IMAGE"
ANALYZING == "ANALYZING"
COMPLETE == "COMPLETE"
ERROR == "ERROR"
AWAITING_ANALYSIS == "AWAITING_ANALYSIS"
AnalysisStep == {INPUT, FETCHING_IMAGE, AWAITING_ANALYSIS, ANALYZING, COMPLETE, ERROR}

\* null (useState<... | null>(null))
Null == [null |-> TRUE]

\* ------------------------------------------------------------ input values
\* An address is a string, modelled as a sequence of characters so that
\* trim() and the emptiness test can be computed.
Alphabet == <<"a", "b", "c", "d">>
Letters == {Alphabet[k] : k \in 1..NumLetters}
\* What the user can have in the address field: nothing, a blank, or a
\* one-letter address.
Addresses == {<<>>, <<" ">>} \cup {<<c>> : c \in Letters}

PlacementIds == {"p1", "p2"}
PlacementSeqs == UNION {[1..n -> PlacementIds] : n \in 0..MaxPlacements}
\* The objects the generation endpoint can answer with (schema-shaped JSON).
Analyses == {[overview |-> "overview", placements |-> p, cameraSummary |-> <<>>] : p \in PlacementSeqs}

\* String.prototype.trim
RECURSIVE TrimStart(_)
TrimStart(s) == IF s # <<>> /\ Head(s) = " " THEN TrimStart(Tail(s)) ELSE s
RECURSIVE TrimEnd(_)
TrimEnd(s) == IF s # <<>> /\ s[Len(s)] = " " THEN TrimEnd(SubSeq(s, 1, Len(s) - 1)) ELSE s
trim(s) == TrimEnd(TrimStart(s))

\* --------------------------------------------------------- error messages
MSG_MAPS_KEY == "Google Maps API Key is not configured."
MSG_NETWORK == "A network error occurred while trying to contact Google Maps."
MSG_ZERO_RESULTS == "No location could be found for the address entered."
MSG_REQUEST_DENIED == "The request to Google Maps was denied."
MSG_REQUEST_DENIED_GOOGLE == "The request to Google Maps was denied. (Google's message: ...)"
MSG_OVER_QUERY_LIMIT == "The application has exceeded its daily usage limit for the Google Maps API."
MSG_INVALID_REQUEST == "The request to Google Maps was invalid."
MSG_UNKNOWN_STATUS == "Could not find location. Google Maps status: UNKNOWN_ERROR."
MSG_NO_LOCATION_DATA == "Google Maps returned a success status but no location data."
MSG_STATIC_FAILED == "Failed to retrieve satellite imagery from Google Maps."
MSG_GEMINI_KEY == "Gemini API Key is not configured."
MSG_ANALYSIS_FAILED == "Failed to perform security analysis."
MSG_DETAILED_DENIED == "Request Denied by Google Maps. ... enter the following URL: ${origin}/*"
MSG_PDF_FAILED == "Failed to generate PDF: ..."
MSG_PDF_UNKNOWN == "An unknown error occurred during PDF generation."

\* A thrown value: cls is the class the catch block tests with instanceof.
Err(cls, message) == [cls |-> cls, message |-> message]

\* ------------------------------------------------------------------- state
VARIABLES
  env,               \* import.meta.env: which keys the build was given
  location,          \* useState('')
  aerialImage,       \* useState<string | null>(null)
  securityAnalysis,  \* useState<SecurityAnalysis | null>(null)
  step,              \* useState<AnalysisStep>(AnalysisStep.INPUT)
  error,             \* useState<string>('')
  zoomLevel,         \* useState(INITIAL_ZOOM)
  isImageLoading,    \* useState(false)
  isGeneratingPdf,   \* useState(false)
  tasks,             \* the suspended async handlers, each awaiting one call
  ev,                \* the last event handled (observation only)
  pdf                \* generatePdfReport: the document being written

session == <<location, aerialImage, securityAnalysis, step, error, zoomLevel, isImageLoading, isGeneratingPdf>>
vars == <<env, location, aerialImage, securityAnalysis, step, error, zoomLevel, isImageLoading, isGeneratingPdf, tasks, ev, pdf>>

\* A suspended handler: kind is the handler, pc the call it awaits, location
\* / zoom / imageUrl the values of its closure and locals.
Task(kind, pc, loc, zoom, imageUrl) == [kind |-> kind, pc |-> pc, location |-> loc, zoom |-> zoom, imageUrl |-> imageUrl]

\* tasks is a bag: the order in which handlers were suspended is not state.
Spawn(t) == tasks (+) SetToBag({t})
Finish(t) == tasks (-) SetToBag({t})
InFlight(kind) == BagCardinality([t \in {u \in BagToSet(tasks) : u.kind = kind} |-> tasks[t]])

\* What the last step was: the handler or response (op), the flow it
\* belongs to (kind), its argument, the WorkflowState it started from, the
\* network calls it issued, and what a client returned or threw in it.
Event(op, kind, arg, issued, ret) == [op |-> op, kind |-> kind, arg |-> arg, from |-> step, issued |-> issued, ret |-> ret]
NoRet == [state |-> "none", value |-> Null, resp |-> Null]
Resolved(v) == [state |-> "resolved", value |-> v, resp |-> Null]
Rejected(e) == [state |-> "rejected", value |-> e, resp |-> Null]
\* The outcome r together with the network response it was computed from.
Received(r, resp) == [r EXCEPT !.resp = resp]

\* ------------------------------------------------------------ derived view
ARE_KEYS_CONFIGURED_onlyGemini == env.VITE_API_KEY
ARE_KEYS_CONFIGURED == env.VITE_API_KEY /\ env.VITE_MAPS_API_KEY
\* What App returns: the configuration guide, or the application itself.
Screen == IF ~ARE_KEYS_CONFIGURED THEN "ApiConfigurationMessage" ELSE "App"
isLoading == step = FETCHING_IMAGE \/ step = ANALYZING
canZoomIn == zoomLevel < MAX_ZOOM
canZoomOut == zoomLevel > MIN_ZOOM

\* What the render function shows in the current state.
FormRendered_alsoComplete == ARE_KEYS_CONFIGURED /\ step \in {INPUT, ERROR, COMPLETE}
FormRendered == ARE_KEYS_CONFIGURED /\ step \in {INPUT, ERROR}
ResetRendered == ARE_KEYS_CONFIGURED /\ step \in {ERROR, COMPLETE}
AerialViewRendered == ARE_KEYS_CONFIGURED /\ step # INPUT /\ step # ERROR
ZoomControlsRendered == AerialViewRendered /\ aerialImage # Null
ExportRendered == ARE_KEYS_CONFIGURED /\ step = COMPLETE
\* aerialViewRef.current: the div the ref is attached to, when mounted
aerialViewRefCurrent == AerialViewRendered /\ aerialImage # Null

\* ---------------------------------------------------------- Imagery Client
Statuses == {"OK", "ZERO_RESULTS", "REQUEST_DENIED", "OVER_QUERY_LIMIT", "INVALID_REQUEST", "UNKNOWN_ERROR"}
GeoResp(net, status, msg, res) == [net |-> net, status |-> status, error_message |-> msg, hasResult |-> res]
\* What the geocoding fetch can come back with: a transport failure, or a
\* JSON body with a status, an optional error_message and results.
GeocodeResponses ==
  {GeoResp("error", "", FALSE, FALSE)}
    \cup {GeoResp("ok", "OK", FALSE, r) : r \in BOOLEAN}
    \cup {GeoResp("ok", "REQUEST_DENIED", m, FALSE) : m \in BOOLEAN}
    \cup {GeoResp("ok", s, FALSE, FALSE) : s \in Statuses \ {"OK", "REQUEST_DENIED"}}

\* The key check that precedes the geocoding fetch.
getAerialViewFromAddress_begin_noKeyCheck == NoRet
getAerialViewFromAddress_begin ==
  IF ~env.VITE_MAPS_API_KEY THEN Rejected(Err("Error", MSG_MAPS_KEY)) ELSE NoRet

geocodeOutcome_deniedFallsThrough(resp) ==
  IF resp.net = "error" THEN Rejected(Err("Error", MSG_NETWORK))
  ELSE IF resp.status # "OK" THEN
    CASE resp.status = "ZERO_RESULTS" -> Rejected(Err("Error", MSG_ZERO_RESULTS))
      [] resp.status = "REQUEST_DENIED" ->
           Rejected(Err("Error", IF resp.error_message THEN MSG_REQUEST_DENIED_GOOGLE ELSE MSG_REQUEST_DENIED))
      [] resp.status = "OVER_QUERY_LIMIT" -> Rejected(Err("Error", MSG_OVER_QUERY_LIMIT))
      [] resp.status = "INVALID_REQUEST" -> Rejected(Err("Error", MSG_INVALID_REQUEST))
      [] OTHER -> Rejected(Err("Error", MSG_UNKNOWN_STATUS))
  ELSE IF ~resp.hasResult THEN Rejected(Err("Error", MSG_NO_LOCATION_DATA))
  ELSE NoRet
geocodeOutcome_noResultCheck(resp) ==
  IF resp.net = "error" THEN Rejected(Err("Error", MSG_NETWORK))
  ELSE IF resp.status # "OK" THEN
    CASE resp.status = "ZERO_RESULTS" -> Rejected(Err("Error", MSG_ZERO_RESULTS))
      [] resp.status = "REQUEST_DENIED" ->
           Rejected(Err("MapsRequestDeniedError",
                        IF resp.error_message THEN MSG_REQUEST_DENIED_GOOGLE ELSE MSG_REQUEST_DENIED))
      [] resp.status = "OVER_QUERY_LIMIT" -> Rejected(Err("Error", MSG_OVER_QUERY_LIMIT))
      [] resp.status = "INVALID_REQUEST" -> Rejected(Err("Error", MSG_INVALID_REQUEST))
      [] OTHER -> Rejected(Err("Error", MSG_UNKNOWN_STATUS))
  ELSE NoRet
\* The client's handling of the geocoding response: NoRet when it goes on
\* to the static map request, a rejection otherwise.
geocodeOutcome(resp) ==
  IF resp.net = "error" THEN Rejected(Err("Error", MSG_NETWORK))
  ELSE IF resp.status # "OK" THEN
    CASE resp.status = "ZERO_RESULTS" -> Rejected(Err("Error", MSG_ZERO_RESULTS))
      [] resp.status = "REQUEST_DENIED" ->
           Rejected(Err("MapsRequestDeniedError",
                        IF resp.error_message THEN MSG_REQUEST_DENIED_GOOGLE ELSE MSG_REQUEST_DENIED))
      [] resp.status = "OVER_QUERY_LIMIT" -> Rejected(Err("Error", MSG_OVER_QUERY_LIMIT))
      [] resp.status = "INVALID_REQUEST" -> Rejected(Err("Error", MSG_INVALID_REQUEST))
      [] OTHER -> Rejected(Err("Error", MSG_UNKNOWN_STATUS))
  ELSE IF ~resp.hasResult THEN Rejected(Err("Error", MSG_NO_LOCATION_DATA))
  ELSE NoRet

\* The image payload the static map request yields for an address and zoom.
Image(address, zoom) == [address |-> address, zoom |-> zoom]

\* urlToBase64 and its try/catch: the payload, or the imagery failure.
staticmapOutcome(t, ok) ==
  IF ok THEN Resolved(Image(t.location, t.zoom)) ELSE Rejected(Err("Error", MSG_STATIC_FAILED))

\* --------------------------------------------------------- Analysis Client
getSecurityAnalysis_begin ==
  IF ~env.VITE_API_KEY THEN Rejected(Err("Error", MSG_GEMINI_KEY)) ELSE NoRet

\* generateContent + JSON.parse, any failure collapsed into one error.
GenerateResponses == {Null} \cup Analyses
generateOutcome(resp) ==
  IF resp = Null THEN Rejected(Err("Error", MSG_ANALYSIS_FAILED)) ELSE Resolved(resp)

\* ------------------------------------------------------------ handleSubmit
\* negation of: if (!location.trim() || isLoading) return;
SubmitGuard_ignoresLoading == trim(location) # <<>>
SubmitGuard == trim(location) # <<>> /\ ~isLoading

\* catch (err) of handleSubmit
SubmitCatchMessage_alwaysRaw(err) == err.message
SubmitCatchMessage(err) ==
  IF err.cls = "MapsRequestDeniedError" THEN MSG_DETAILED_DENIED ELSE err.message

SubmitCatch_keepsStep(err) ==
  /\ error' = SubmitCatchMessage(err)
  /\ UNCHANGED step
SubmitCatch(err) ==
  /\ error' = SubmitCatchMessage(err)
  /\ step' = ERROR

\* setAerialImage(null); setSecurityAnalysis(null); setZoomLevel(INITIAL_ZOOM)
SubmitClears_keepsZoom ==
  /\ aerialImage' = Null
  /\ securityAnalysis' = Null
  /\ UNCHANGED zoomLevel
SubmitClears ==
  /\ aerialImage' = Null
  /\ securityAnalysis' = Null
  /\ zoomLevel' = INITIAL_ZOOM

\* The synchronous part of handleSubmit, up to the first await.
handleSubmit ==
  IF ~SubmitGuard
  THEN /\ UNCHANGED <<session, tasks>>
       /\ ev' = Event("handleSubmit", "submit", 0, {}, NoRet)
  ELSE LET r == getAerialViewFromAddress_begin IN
       /\ SubmitClears
       /\ UNCHANGED <<location, isImageLoading, isGeneratingPdf>>
       /\ IF r.state = "rejected"
          THEN /\ SubmitCatch(r.value)
               /\ UNCHANGED tasks
               /\ ev' = Event("handleSubmit", "submit", INITIAL_ZOOM, {}, r)
          ELSE /\ error' = ""
               /\ step' = FETCHING_IMAGE
               /\ tasks' = Spawn(Task("submit", "geocode", location, INITIAL_ZOOM, Null))
               /\ ev' = Event("handleSubmit", "submit", INITIAL_ZOOM, {"geocode"}, NoRet)

\* The rest of the try block once the image has arrived:
\* setAerialImage, setStep(ANALYZING), getSecurityAnalysis(location, imageUrl).
SubmitImageFetched(t, r) ==
  LET a == getSecurityAnalysis_begin
  IN /\ aerialImage' = r.value
     /\ UNCHANGED <<location, securityAnalysis, zoomLevel, isImageLoading, isGeneratingPdf>>
     /\ IF a.state = "rejected"
        THEN /\ SubmitCatch(a.value)
             /\ tasks' = Finish(t)
             /\ ev' = Event("staticmap", "submit", t.zoom, {}, r)
        ELSE /\ step' = ANALYZING
             /\ UNCHANGED error
             /\ tasks' = Finish(t) (+) SetToBag({Task("submit", "generate", t.location, t.zoom, r.value)})
             /\ ev' = Event("staticmap", "submit", t.zoom, {"generate"}, r)

SubmitFailed_clearsImage(t, op, r) ==
  /\ SubmitCatch(r.value)
  /\ aerialImage' = Null
  /\ UNCHANGED <<location, securityAnalysis, zoomLevel, isImageLoading, isGeneratingPdf>>
  /\ tasks' = Finish(t)
  /\ ev' = Event(op, "submit", t.zoom, {}, r)
SubmitFailed_retries(t, op, r) ==
  /\ UNCHANGED <<session, tasks>>
  /\ ev' = Event(op, "submit", t.zoom, {op}, r)
\* A rejection of an awaited call of handleSubmit lands in its catch block.
SubmitFailed(t, op, r) ==
  /\ SubmitCatch(r.value)
  /\ UNCHANGED <<location, aerialImage, securityAnalysis, zoomLevel, isImageLoading, isGeneratingPdf>>
  /\ tasks' = Finish(t)
  /\ ev' = Event(op, "submit", t.zoom, {}, r)

SubmitAnalysisFetched_noComplete(t, r) ==
  /\ securityAnalysis' = r.value
  /\ UNCHANGED <<location, aerialImage, step, error, zoomLevel, isImageLoading, isGeneratingPdf>>
  /\ tasks' = Finish(t)
  /\ ev' = Event("generate", "submit", t.zoom, {}, r)
\* setSecurityAnalysis(analysis); setStep(COMPLETE)
SubmitAnalysisFetched(t, r) ==
  /\ securityAnalysis' = r.value
  /\ step' = COMPLETE
  /\ UNCHANGED <<location, aerialImage, error, zoomLevel, isImageLoading, isGeneratingPdf>>
  /\ tasks' = Finish(t)
  /\ ev' = Event("generate", "submit", t.zoom, {}, r)

\* -------------------------------------------------------- handleZoomChange
\* negation of: if (isImageLoading || !location || newZoom < MIN_ZOOM || newZoom > MAX_ZOOM) return;
ZoomGuard_noUpperBound(newZoom) ==
  /\ ~isImageLoading
  /\ location # <<>>
  /\ newZoom >= MIN_ZOOM
ZoomGuard_ignoresLoading(newZoom) ==
  /\ location # <<>>
  /\ newZoom >= MIN_ZOOM
  /\ newZoom <= MAX_ZOOM
ZoomGuard(newZoom) ==
  /\ ~isImageLoading
  /\ location # <<>>
  /\ newZoom >= MIN_ZOOM
  /\ newZoom <= MAX_ZOOM

handleZoomChange(newZoom) ==
  IF ~ZoomGuard(newZoom)
  THEN /\ UNCHANGED <<session, tasks>>
       /\ ev' = Event("handleZoomChange", "zoom", newZoom, {}, NoRet)
  ELSE LET r == getAerialViewFromAddress_begin IN
       /\ UNCHANGED <<location, aerialImage, securityAnalysis, step, zoomLevel, isGeneratingPdf>>
       /\ IF r.state = "rejected"
          THEN /\ error' = r.value.message
               /\ isImageLoading' = FALSE
               /\ UNCHANGED tasks
               /\ ev' = Event("handleZoomChange", "zoom", newZoom, {}, r)
          ELSE /\ error' = ""
               /\ isImageLoading' = TRUE
               /\ tasks' = Spawn(Task("zoom", "geocode", location, newZoom, Null))
               /\ ev' = Event("handleZoomChange", "zoom", newZoom, {"geocode"}, NoRet)

\* setAerialImage(imageUrl); setZoomLevel(newZoom); finally setIsImageLoading(false)
ZoomImageFetched(t, r) ==
  /\ aerialImage' = r.value
  /\ zoomLevel' = t.zoom
  /\ isImageLoading' = FALSE
  /\ UNCHANGED <<location, securityAnalysis, step, error, isGeneratingPdf>>
  /\ tasks' = Finish(t)
  /\ ev' = Event("staticmap", "zoom", t.zoom, {}, r)

ZoomFailed_setsErrorStep(t, op, r) ==
  /\ error' = r.value.message
  /\ step' = ERROR
  /\ isImageLoading' = FALSE
  /\ UNCHANGED <<location, aerialImage, securityAnalysis, zoomLevel, isGeneratingPdf>>
  /\ tasks' = Finish(t)
  /\ ev' = Event(op, "zoom", t.zoom, {}, r)
ZoomFailed_noFinally(t, op, r) ==
  /\ error' = r.value.message
  /\ UNCHANGED <<location, aerialImage, securityAnalysis, step, zoomLevel, isImageLoading, isGeneratingPdf>>
  /\ tasks' = Finish(t)
  /\ ev' = Event(op, "zoom", t.zoom, {}, r)
\* catch (err) and finally of handleZoomChange
ZoomFailed(t, op, r) ==
  /\ error' = r.value.message
  /\ isImageLoading' = FALSE
  /\ UNCHANGED <<location, aerialImage, securityAnalysis, step, zoomLevel, isGeneratingPdf>>
  /\ tasks' = Finish(t)
  /\ ev' = Event(op, "zoom", t.zoom, {}, r)

\* ---------------------------------------------------- handleGenerateReport
\* negation of: if (!aerialViewRef.current || !securityAnalysis || isGeneratingPdf) return;
ReportGuard_ignoresGenerating ==
  /\ aerialViewRefCurrent
  /\ securityAnalysis # Null
ReportGuard_ignoresAnalysis ==
  /\ aerialViewRefCurrent
  /\ ~isGeneratingPdf
ReportGuard ==
  /\ aerialViewRefCurrent
  /\ securityAnalysis # Null
  /\ ~isGeneratingPdf

handleGenerateReport ==
  IF ~ReportGuard
  THEN /\ UNCHANGED <<session, tasks>>
       /\ ev' = Event("handleGenerateReport", "export", 0, {}, NoRet)
  ELSE /\ isGeneratingPdf' = TRUE
       /\ error' = ""
       /\ UNCHANGED <<location, aerialImage, securityAnalysis, step, zoomLevel, isImageLoading>>
       /\ tasks' = Spawn(Task("export", "pdf", location, 0, securityAnalysis))
       /\ ev' = Event("handleGenerateReport", "export", 0, {"pdf"}, NoRet)

\* What generatePdfReport can end with: success, an Error, or a thrown
\* value that is not an Error.
ExportOutcomes == {"ok", "Error", "other"}

ExportSettled_noFinally(t, outcome) ==
  /\ error' = CASE outcome = "ok" -> error
                [] outcome = "Error" -> MSG_PDF_FAILED
                [] OTHER -> MSG_PDF_UNKNOWN
  /\ isGeneratingPdf' = (outcome # "ok")
  /\ UNCHANGED <<location, aerialImage, securityAnalysis, step, zoomLevel, isImageLoading>>
  /\ tasks' = Finish(t)
  /\ ev' = Event("pdf", "export", 0, {}, IF outcome = "ok" THEN Resolved(Null) ELSE Rejected(Err(outcome, "")))
ExportSettled(t, outcome) ==
  /\ error' = CASE outcome = "ok" -> error
                [] outcome = "Error" -> MSG_PDF_FAILED
                [] OTHER -> MSG_PDF_UNKNOWN
  /\ isGeneratingPdf' = FALSE
  /\ UNCHANGED <<location, aerialImage, securityAnalysis, step, zoomLevel, isImageLoading>>
  /\ tasks' = Finish(t)
  /\ ev' = Event("pdf", "export", 0, {}, IF outcome = "ok" THEN Resolved(Null) ELSE Rejected(Err(outcome, "")))

\* ------------------------------------------------------------- handleReset
handleReset_cancelsTasks ==
  /\ location' = <<>>
  /\ aerialImage' = Null
  /\ securityAnalysis' = Null
  /\ error' = ""
  /\ step' = INPUT
  /\ zoomLevel' = INITIAL_ZOOM
  /\ tasks' = EmptyBag
  /\ UNCHANGED <<isImageLoading, isGeneratingPdf>>
  /\ ev' = Event("handleReset", "reset", 0, {}, NoRet)
handleReset_keepsAnalysis ==
  /\ location' = <<>>
  /\ aerialImage' = Null
  /\ error' = ""
  /\ step' = INPUT
  /\ zoomLevel' = INITIAL_ZOOM
  /\ UNCHANGED <<securityAnalysis, isImageLoading, isGeneratingPdf, tasks>>
  /\ ev' = Event("handleReset", "reset", 0, {}, NoRet)
handleReset_keepsZoom ==
  /\ location' = <<>>
  /\ aerialImage' = Null
  /\ securityAnalysis' = Null
  /\ error' = ""
  /\ step' = INPUT
  /\ UNCHANGED <<zoomLevel, isImageLoading, isGeneratingPdf, tasks>>
  /\ ev' = Event("handleReset", "reset", 0, {}, NoRet)
handleReset ==
  /\ location' = <<>>
  /\ aerialImage' = Null
  /\ securityAnalysis' = Null
  /\ error' = ""
  /\ step' = INPUT
  /\ zoomLevel' = INITIAL_ZOOM
  /\ UNCHANGED <<isImageLoading, isGeneratingPdf, tasks>>
  /\ ev' = Event("handleReset", "reset", 0, {}, NoRet)

\* ------------------------------------------------------------- user events
\* onChange of the address field (LocationInput, shown in INPUT and ERROR)
TypeLocation(a) ==
  /\ FormRendered
  /\ a # location
  /\ location' = a
  /\ UNCHANGED <<env, pdf, aerialImage, securityAnalysis, step, error, zoomLevel, isImageLoading, isGeneratingPdf, tasks>>
  /\ ev' = Event("setLocation", "input", 0, {}, NoRet)

SubmitForm == FormRendered /\ BagCardinality(tasks) < MaxTasks /\ handleSubmit /\ UNCHANGED <<env, pdf>>
ClickZoomIn == ZoomControlsRendered /\ canZoomIn /\ BagCardinality(tasks) < MaxTasks /\ handleZoomChange(zoomLevel + 1) /\ UNCHANGED <<env, pdf>>
ClickZoomOut == ZoomControlsRendered /\ canZoomOut /\ BagCardinality(tasks) < MaxTasks /\ handleZoomChange(zoomLevel - 1) /\ UNCHANGED <<env, pdf>>
ClickExport == ExportRendered /\ ~isGeneratingPdf /\ BagCardinality(tasks) < MaxTasks /\ handleGenerateReport /\ UNCHANGED <<env, pdf>>
ClickReset == ResetRendered /\ handleReset /\ UNCHANGED <<env, pdf>>

\* ------------------------------------------------------- network responses
GeocodeResponds(t, resp) ==
  /\ t.pc = "geocode"
  /\ UNCHANGED <<env, pdf>>
  /\ LET r == Received(geocodeOutcome(resp), resp) IN
     IF r.state = "rejected"
     THEN IF t.kind = "submit" THEN SubmitFailed(t, "geocode", r) ELSE ZoomFailed(t, "geocode", r)
     ELSE /\ tasks' = Finish(t) (+) SetToBag({[t EXCEPT !.pc = "staticmap"]})
          /\ UNCHANGED session
          /\ ev' = Event("geocode", t.kind, t.zoom, {"staticmap"}, r)

StaticmapResponds(t, ok) ==
  /\ t.pc = "staticmap"
  /\ UNCHANGED <<env, pdf>>
  /\ LET r == staticmapOutcome(t, ok) IN
     IF t.kind = "submit"
     THEN IF r.state = "resolved" THEN SubmitImageFetched(t, r) ELSE SubmitFailed(t, "staticmap", r)
     ELSE IF r.state = "resolved" THEN ZoomImageFetched(t, r) ELSE ZoomFailed(t, "staticmap", r)

GenerateResponds(t, resp) ==
  /\ t.pc = "generate"
  /\ UNCHANGED <<env, pdf>>
  /\ LET r == generateOutcome(resp) IN
     IF r.state = "resolved" THEN SubmitAnalysisFetched(t, r) ELSE SubmitFailed(t, "generate", r)

ExportResponds(t, outcome) ==
  /\ t.pc = "pdf"
  /\ UNCHANGED <<env, pdf>>
  /\ ExportSettled(t, outcome)

\* ---------------------------------------------------------- specification
Init ==
  /\ env \in [VITE_API_KEY : BOOLEAN, VITE_MAPS_API_KEY : BOOLEAN]
  /\ location = <<>>
  /\ aerialImage = Null
  /\ securityAnalysis = Null
  /\ step = INPUT
  /\ error = ""
  /\ zoomLevel = INITIAL_ZOOM
  /\ isImageLoading = FALSE
  /\ isGeneratingPdf = FALSE
  /\ tasks = EmptyBag
  /\ ev = [op |-> "init", kind |-> "init", arg |-> 0, from |-> INPUT, issued |-> {}, ret |-> NoRet]
  /\ pdf = Null

\* What the user can do through the rendered page, and what the network does.
Next ==
  \/ \E a \in Addresses : TypeLocation(a)
  \/ SubmitForm
  \/ ClickZoomIn
  \/ ClickZoomOut
  \/ ClickExport
  \/ ClickReset
  \/ \E t \in BagToSet(tasks), resp \in GeocodeResponses : GeocodeResponds(t, resp)
  \/ \E t \in BagToSet(tasks), ok \in BOOLEAN : StaticmapResponds(t, ok)
  \/ \E t \in BagToSet(tasks), resp \in GenerateResponses : GenerateResponds(t, resp)
  \/ \E t \in BagToSet(tasks), outcome \in ExportOutcomes : ExportResponds(t, outcome)

Spec == Init /\ [][Next]_vars

\* Every outstanding call is eventually answered: the response to the call
\* a suspended handler awaits is not withheld forever.
Answered(kind) ==
  \/ \E t \in BagToSet(tasks), resp \in GeocodeResponses : t.kind = kind /\ GeocodeResponds(t, resp)
  \/ \E t \in BagToSet(tasks), ok \in BOOLEAN : t.kind = kind /\ StaticmapResponds(t, ok)
  \/ \E t \in BagToSet(tasks), resp \in GenerateResponses : t.kind = kind /\ GenerateResponds(t, resp)
  \/ \E t \in BagToSet(tasks), outcome \in ExportOutcomes : t.kind = kind /\ ExportResponds(t, outcome)

LiveSpec ==
  /\ Init
  /\ [][Next]_vars
  /\ WF_vars(Answered("submit"))
  /\ WF_vars(Answered("zoom"))
  /\ WF_vars(Answered("export"))

\* The handlers invoked directly: handleSubmit and handleGenerateReport in
\* any state of the configured application, handleZoomChange with any target
\* level while the zoom controls are mounted (their disabled attribute
\* ignored). The guard at the top of each handler is then the only thing
\* between a call and its effect.
ZoomArgs == (MIN_ZOOM - 1)..(MAX_ZOOM + 1)
CallSubmit == ARE_KEYS_CONFIGURED /\ BagCardinality(tasks) < MaxTasks /\ handleSubmit /\ UNCHANGED <<env, pdf>>
CallZoomChange(newZoom) == ZoomControlsRendered /\ BagCardinality(tasks) < MaxTasks /\ handleZoomChange(newZoom) /\ UNCHANGED <<env, pdf>>
CallGenerateReport == ARE_KEYS_CONFIGURED /\ BagCardinality(tasks) < MaxTasks /\ handleGenerateReport /\ UNCHANGED <<env, pdf>>

\* handleSubmit reachable in every state
SubmitNext ==
  \/ Next
  \/ CallSubmit

SubmitSpec == Init /\ [][SubmitNext]_vars

\* handleZoomChange called with any target level
ZoomNext ==
  \/ Next
  \/ \E newZoom \in ZoomArgs : CallZoomChange(newZoom)

ZoomSpec == Init /\ [][ZoomNext]_vars

\* handleGenerateReport reachable in every state
ExportNext ==
  \/ Next
  \/ CallGenerateReport

ExportSpec == Init /\ [][ExportNext]_vars

\* The handlers of a build that lacks a key, invoked although App renders
\* the configuration guide: the two clients are then called without their
\* key. setLocation, handleSubmit and handleZoomChange are called directly.
UnconfiguredSetLocation(a) ==
  /\ ~ARE_KEYS_CONFIGURED
  /\ a # location
  /\ location' = a
  /\ UNCHANGED <<env, pdf, aerialImage, securityAnalysis, step, error, zoomLevel, isImageLoading, isGeneratingPdf, tasks>>
  /\ ev' = Event("setLocation", "input", 0, {}, NoRet)
UnconfiguredSubmit == ~ARE_KEYS_CONFIGURED /\ BagCardinality(tasks) < MaxTasks /\ handleSubmit /\ UNCHANGED <<env, pdf>>
UnconfiguredZoomChange(newZoom) ==
  ~ARE_KEYS_CONFIGURED /\ BagCardinality(tasks) < MaxTasks /\ handleZoomChange(newZoom) /\ UNCHANGED <<env, pdf>>

ClientNext ==
  \/ Next
  \/ \E a \in Addresses : UnconfiguredSetLocation(a)
  \/ UnconfiguredSubmit
  \/ \E newZoom \in {zoomLevel - 1, zoomLevel + 1} : UnconfiguredZoomChange(newZoom)

ClientSpec == Init /\ [][ClientNext]_vars

\* ------------------------------------------------------- generatePdfReport
\* Lengths are kept in quarter millimetres, so that the image height of
\* 101.25 mm is a whole number.
Mm(x) == 4 * x
pageHeight == Mm(A4_HEIGHT)
pageWidth == Mm(A4_WIDTH)
contentWidth == pageWidth - Mm(MARGIN) * 2
\* (imgProps.height * contentWidth) / imgProps.width for the captured
\* element, whose box is 16:9 (aspect-video).
imgHeight == (9 * contentWidth) \div 16

pdfGenerator_MARKER_COLORS ==
  <<"#34d399", "#fbbf24", "#60a5fa", "#f87171", "#a78bfa", "#f472b6">>
AerialView_MARKER_COLORS ==
  <<"#34d399", "#fbbf24", "#60a5fa", "#f87171", "#a78bfa", "#f472b6",
    "#2dd4bf", "#a3e635", "#38bdf8", "#e879f9", "#fb7185", "#22d3ee",
    "#fb923c", "#818cf8", "#d946ef", "#14b8a6", "#facc15", "#ef4444",
    "#0ea5e9", "#6d28d9", "#db2777", "#f59e0b", "#10b981">>
\* MARKER_COLORS[index % MARKER_COLORS.length], index counted from 0
swatchColor(index) == pdfGenerator_MARKER_COLORS[(index % Len(pdfGenerator_MARKER_COLORS)) + 1]
markerColor(index) == AerialView_MARKER_COLORS[(index % Len(AerialView_MARKER_COLORS)) + 1]

\* checkPageBreak(spaceNeeded): whether it adds a page, and yPosition after it
checkPageBreak(y, spaceNeeded) == y + spaceNeeded > pageHeight - Mm(MARGIN)
AfterBreak(y, spaceNeeded) == IF checkPageBreak(y, spaceNeeded) THEN Mm(MARGIN) ELSE y
PagesAdded(y, spaceNeeded) == IF checkPageBreak(y, spaceNeeded) THEN 1 ELSE 0

\* The document state: pc is the block to write next, yPosition the cursor,
\* page the current page, index the placement to draw next, line the
\* overview lines drawn, block / textTop / textY the block written by the
\* last step with the y of its first and of its lowest text line, fillColor
\* and drawn the swatch colour and index of the last placement drawn.
PdfFrame == UNCHANGED <<env, location, aerialImage, securityAnalysis, step, error, zoomLevel, isImageLoading, isGeneratingPdf, tasks, ev>>

\* Header and aerial image.
DrawHeader ==
  /\ pdf.pc = "header"
  /\ pdf' = [pdf EXCEPT !.pc = "overview",
                        !.block = "header",
                        !.textTop = Mm(MARGIN),
                        !.textY = Mm(MARGIN) + Mm(10),
                        !.yPosition = Mm(MARGIN) + Mm(10) + Mm(15) + imgHeight + Mm(15)]
  /\ PdfFrame

\* checkPageBreak(20); 'Security Overview'; yPosition += LINE_HEIGHT
DrawOverviewHeading ==
  /\ pdf.pc = "overview"
  /\ \E lines \in 1..MaxOverviewLines :
       LET y == AfterBreak(pdf.yPosition, Mm(20)) IN
       pdf' = [pdf EXCEPT !.pc = "overviewLines",
                          !.block = "heading",
                          !.page = @ + PagesAdded(pdf.yPosition, Mm(20)),
                          !.textTop = y,
                          !.textY = y,
                          !.line = lines,
                          !.yPosition = y + Mm(LINE_HEIGHT)]
  /\ PdfFrame

\* overviewLines.forEach: checkPageBreak(LINE_HEIGHT); text; yPosition += LINE_HEIGHT
DrawOverviewLine ==
  /\ pdf.pc = "overviewLines"
  /\ pdf.line > 0
  /\ LET y == AfterBreak(pdf.yPosition, Mm(LINE_HEIGHT)) IN
     pdf' = [pdf EXCEPT !.block = "overviewLine",
                        !.page = @ + PagesAdded(pdf.yPosition, Mm(LINE_HEIGHT)),
                        !.textTop = y,
                        !.textY = y,
                        !.line = @ - 1,
                        !.yPosition = y + Mm(LINE_HEIGHT)]
  /\ PdfFrame

\* yPosition += 10; checkPageBreak(20); 'Recommended Placements'; yPosition += 10
DrawPlacementsHeading ==
  /\ pdf.pc = "overviewLines"
  /\ pdf.line = 0
  /\ LET y0 == pdf.yPosition + Mm(10)
         y == AfterBreak(y0, Mm(20))
     IN pdf' = [pdf EXCEPT !.pc = "placements",
                           !.block = "heading",
                           !.page = @ + PagesAdded(y0, Mm(20)),
                           !.textTop = y,
                           !.textY = y,
                           !.yPosition = y + Mm(10)]
  /\ PdfFrame

\* One iteration of analysis.placements.forEach, for a placement whose
\* reason wraps to reasonLines lines.
DrawPlacement(reasonLines) ==
  /\ pdf.pc = "placements"
  /\ pdf.index < MaxPdfPlacements
  /\ LET color == swatchColor(pdf.index)
         sectionHeight == (Mm(LINE_HEIGHT) * 3) + (reasonLines * Mm(LINE_HEIGHT))
         y == AfterBreak(pdf.yPosition, sectionHeight)
     IN pdf' = [pdf EXCEPT !.block = "placement",
                           !.page = @ + PagesAdded(pdf.yPosition, sectionHeight),
                           !.fillColor = color,
                           !.drawn = pdf.index,
                           !.index = @ + 1,
                           !.textTop = y,
                           !.textY = y + Mm(LINE_HEIGHT) + Mm(LINE_HEIGHT) + (reasonLines - 1) * Mm(LINE_HEIGHT),
                           !.yPosition = y + Mm(LINE_HEIGHT) + Mm(LINE_HEIGHT) + reasonLines * Mm(LINE_HEIGHT) + Mm(8)]
  /\ PdfFrame

\* The equipment summary (when cameraSummary is not empty) and pdf.save
DrawSummary(rows) ==
  /\ pdf.pc = "placements"
  /\ IF rows > 0
     THEN LET summaryHeight == Mm(20) + (rows * Mm(LINE_HEIGHT))
              y == AfterBreak(pdf.yPosition, summaryHeight) + Mm(2)
          IN pdf' = [pdf EXCEPT !.pc = "saved",
                                !.block = "summary",
                                !.page = @ + PagesAdded(pdf.yPosition, summaryHeight),
                                !.textTop = y,
                                !.textY = y + Mm(10) + (rows - 1) * Mm(LINE_HEIGHT),
                                !.yPosition = y + Mm(10) + rows * Mm(LINE_HEIGHT)]
     ELSE pdf' = [pdf EXCEPT !.pc = "saved", !.block = "none"]
  /\ PdfFrame

PdfInit ==
  /\ env = [VITE_API_KEY |-> TRUE, VITE_MAPS_API_KEY |-> TRUE]
  /\ location = <<>>
  /\ aerialImage = Null
  /\ securityAnalysis = Null
  /\ step = INPUT
  /\ error = ""
  /\ zoomLevel = INITIAL_ZOOM
  /\ isImageLoading = FALSE
  /\ isGeneratingPdf = FALSE
  /\ tasks = EmptyBag
  /\ ev = [op |-> "init", kind |-> "init", arg |-> 0, from |-> INPUT, issued |-> {}, ret |-> NoRet]
  /\ pdf = [pc |-> "header", block |-> "none", yPosition |-> Mm(MARGIN), page |-> 1, index |-> 0, drawn |-> 0,
            line |-> 0, textTop |-> 0, textY |-> 0, fillColor |-> ""]

PdfNext ==
  \/ DrawHeader
  \/ DrawOverviewHeading
  \/ DrawOverviewLine
  \/ DrawPlacementsHeading
  \/ \E reasonLines \in 1..MaxReasonLines : DrawPlacement(reasonLines)
  \/ \E rows \in 0..MaxSummaryRows : DrawSummary(rows)

PdfSpec == PdfInit /\ [][PdfNext]_vars

\* ================================================================== claims
SubmitTasks == {t \in BagToSet(tasks) : t.kind = "submit"}

\* C1: every accepted submit whose image fetch and analysis call succeed
\* passes through ANALYZING to COMPLETE, and on reaching COMPLETE the stored
\* analysis is the value the Analysis Client returned and the stored image is
\* the one the Imagery Client returned for that submission.
C1_CompleteStoresReturnedValues ==
  [][(step' = COMPLETE /\ step # COMPLETE) =>
       /\ step = ANALYZING
       /\ ev'.op = "generate"
       /\ ev'.ret.state = "resolved"
       /\ securityAnalysis' = ev'.ret.value
       /\ \E t \in SubmitTasks : t.pc = "generate" /\ aerialImage' = t.imageUrl]_vars

\* The part of C1 about the analysis alone (the path and the stored analysis).
C1_CompleteStoresReturnedAnalysis ==
  [][(step' = COMPLETE /\ step # COMPLETE) =>
       /\ step = ANALYZING
       /\ ev'.op = "generate"
       /\ ev'.ret.state = "resolved"
       /\ securityAnalysis' = ev'.ret.value]_vars

\* C2: a submit with a blank (trimmed-empty) address, or while a submission
\* is in flight (FETCHING_IMAGE or ANALYZING), issues no call and changes
\* nothing; at most one submission flow is in flight at any time.
C2_SubmitGuardNoOp ==
  [][/\ (ev'.op = "handleSubmit" /\ (trim(location) = <<>> \/ step \in {FETCHING_IMAGE, ANALYZING}))
          => (UNCHANGED <<session, tasks>> /\ ev'.issued = {})
     /\ InFlight("submit")' <= 1]_vars

C2_Witness ==
  /\ ev.op = "handleSubmit"
  /\ ev.issued = {}
  /\ step \in {FETCHING_IMAGE, ANALYZING}
  /\ trim(location) # <<>>
  /\ InFlight("submit") = 1

\* C3: the analysis call of a submission is issued only in the step in which
\* that submission's image fetch resolves; a failed image fetch ends the
\* submission in ERROR without an analysis call; a submission never has
\* more than one call outstanding.
C3_AnalysisAfterImage ==
  [][/\ ("generate" \in ev'.issued) =>
          /\ ev'.op = "staticmap" /\ ev'.kind = "submit" /\ ev'.ret.state = "resolved"
          /\ \E t \in SubmitTasks : t.pc = "staticmap"
     /\ (ev'.kind = "submit" /\ ev'.op \in {"geocode", "staticmap"} /\ ev'.ret.state = "rejected") =>
          /\ step' = ERROR
          /\ ev'.issued = {}
          /\ InFlight("submit")' = 0
     /\ \A t \in SubmitTasks' : t.pc = "generate" => t.imageUrl # Null
     /\ InFlight("submit")' <= 1]_vars

C3_Witness ==
  /\ ev.kind = "submit" /\ ev.op = "staticmap" /\ ev.issued = {"generate"}
  /\ step = ANALYZING
  /\ \E t \in SubmitTasks : t.pc = "generate" /\ t.imageUrl = aerialImage

\* C4 as stated: every change of WorkflowState is one of the seven listed
\* transitions (a submit starts a fetch only from INPUT).
StatedTransitions ==
  {<<INPUT, FETCHING_IMAGE>>, <<FETCHING_IMAGE, ANALYZING>>, <<FETCHING_IMAGE, ERROR>>,
   <<ANALYZING, COMPLETE>>, <<ANALYZING, ERROR>>, <<ERROR, INPUT>>, <<COMPLETE, INPUT>>}
C4_StatedTransitionsOnly ==
  [][step' # step => <<step, step'>> \in StatedTransitions]_vars

\* C4 amended: every change of WorkflowState is one of the seven listed
\* transitions or ERROR -> FETCHING_IMAGE (a submit from the error view);
\* from COMPLETE the only way onward is a reset to INPUT.
C4_TransitionsOnly ==
  [][step' # step =>
       /\ <<step, step'>> \in StatedTransitions \cup {<<ERROR, FETCHING_IMAGE>>}
       /\ (step' = FETCHING_IMAGE <=> ev'.op = "handleSubmit")
       /\ (step \in {ERROR, COMPLETE} /\ step' = INPUT => ev'.op = "handleReset")]_vars

C4_Witness ==
  /\ ev.op = "handleSubmit"
  /\ ev.from = ERROR
  /\ step = FETCHING_IMAGE

\* C5: a reset from COMPLETE or ERROR leaves address empty, image and
\* analysis absent, error empty, zoom level 19 and WorkflowState INPUT.
C5_ResetClearsSession ==
  [][(ev'.op = "handleReset" /\ step \in {COMPLETE, ERROR}) =>
       /\ location' = <<>>
       /\ aerialImage' = Null
       /\ securityAnalysis' = Null
       /\ error' = ""
       /\ zoomLevel' = 19
       /\ step' = INPUT]_vars

C5_Witness ==
  /\ ev.op = "handleReset"
  /\ ev.from = COMPLETE
  /\ step = INPUT
  /\ location = <<>>
  /\ zoomLevel = 19

\* C6: an accepted submit clears image, analysis and error, sets the zoom
\* level to 19, moves to FETCHING_IMAGE, invokes the Imagery Client with the
\* address and zoom 19, and leaves the address unchanged.
C6_SubmitClearsAndFetches ==
  [][(ev'.op = "handleSubmit" /\ trim(location) # <<>> /\ step \notin {FETCHING_IMAGE, ANALYZING}) =>
       /\ aerialImage' = Null
       /\ securityAnalysis' = Null
       /\ error' = ""
       /\ zoomLevel' = 19
       /\ step' = FETCHING_IMAGE
       /\ location' = location
       /\ ev'.issued = {"geocode"}
       /\ tasks' = tasks (+) SetToBag({Task("submit", "geocode", location, 19, Null)})]_vars

C6_Witness ==
  /\ ev.op = "handleSubmit"
  /\ ev.from = ERROR
  /\ step = FETCHING_IMAGE
  /\ error = ""
  /\ InFlight("zoom") = 1

\* C7: a zoom request with a target below 17 or above 21 issues no call and
\* changes nothing; the zoom level is always within 17..21.
C7_ZoomRange ==
  [][/\ (ev'.op = "handleZoomChange" /\ (ev'.arg < 17 \/ ev'.arg > 21))
          => (UNCHANGED <<session, tasks>> /\ ev'.issued = {})
     /\ zoomLevel' \in 17..21]_vars

C7_Witness ==
  /\ ev.op = "handleZoomChange"
  /\ ev.arg = 22
  /\ zoomLevel = 19
  /\ step = COMPLETE
  /\ aerialImage # Null
  /\ location # <<>>
  /\ ~isImageLoading

\* C8: a zoom request made while a zoom fetch is in flight issues no call
\* and changes nothing; at most one zoom fetch is in flight at any time.
C8_ZoomReentrancy ==
  [][/\ (ev'.op = "handleZoomChange" /\ InFlight("zoom") > 0)
          => (UNCHANGED <<session, tasks>> /\ ev'.issued = {})
     /\ InFlight("zoom")' <= 1]_vars

C8_Witness ==
  /\ ev.op = "handleZoomChange"
  /\ ev.issued = {}
  /\ ev.arg \in 17..21
  /\ location # <<>>
  /\ InFlight("zoom") = 1

\* C9: a zoom fetch is started only while WorkflowState is COMPLETE.
C9_ZoomOnlyInComplete ==
  [][(ev'.op = "handleZoomChange" /\ "geocode" \in ev'.issued) => step = COMPLETE]_vars

\* C10: no step of a zoom change (request, geocode response, image response,
\* failure) alters WorkflowState, the address or the analysis; the success
\* step stores the returned image and the requested level; every other zoom
\* step leaves image and level as they were.
ZoomSucceeds(e) == e.kind = "zoom" /\ e.op = "staticmap" /\ e.ret.state = "resolved"
ExportTasks == {t \in BagToSet(tasks) : t.kind = "export"}

\* C11: an export requested while an export is in flight issues no call and
\* changes nothing, so the Report Exporter runs once; at most one export is
\* in flight at any time.
C11_ExportReentrancy ==
  [][/\ (ev'.op = "handleGenerateReport" /\ InFlight("export") > 0)
          => (UNCHANGED <<session, tasks>> /\ ev'.issued = {})
     /\ InFlight("export")' <= 1]_vars

C11_Witness ==
  /\ ev.op = "handleGenerateReport"
  /\ ev.issued = {}
  /\ InFlight("export") = 1
  /\ step = COMPLETE
  /\ securityAnalysis # Null
  /\ aerialImage # Null

\* C12: the Report Exporter is invoked only in COMPLETE, with the stored
\* (non-null) analysis and the stored address; that address is the one the
\* analysis was requested for, since COMPLETE is entered with it and the
\* address does not change while COMPLETE lasts.
C12_ExportOnlyComplete ==
  [][/\ ("pdf" \in ev'.issued) =>
          /\ step = COMPLETE
          /\ securityAnalysis # Null
          /\ tasks' = tasks (+) SetToBag({Task("export", "pdf", location, 0, securityAnalysis)})
     /\ (step' = COMPLETE /\ step # COMPLETE) =>
          \E t \in SubmitTasks : t.pc = "generate" /\ t.location = location'
     /\ (step = COMPLETE /\ step' = COMPLETE) => location' = location]_vars

C12_Witness ==
  /\ ev.op = "handleGenerateReport"
  /\ ev.issued = {"pdf"}
  /\ step = COMPLETE
  /\ \E t \in ExportTasks : t.location = location /\ t.imageUrl = securityAnalysis /\ t.imageUrl # Null

\* C13: a failed export stores a non-empty error, leaves WorkflowState,
\* image, analysis, address and zoom level unchanged, and releases the
\* exporting flag.
ExportFails(e) == e.kind = "export" /\ e.op = "pdf" /\ e.ret.state = "rejected"
C13_ExportFailureFrame ==
  [][ExportFails(ev') =>
       /\ error' # ""
       /\ UNCHANGED <<step, aerialImage, securityAnalysis, location, zoomLevel>>
       /\ isGeneratingPdf' = FALSE]_vars

C13_Witness ==
  /\ ExportFails(ev)
  /\ step = COMPLETE
  /\ error = MSG_PDF_FAILED
  /\ securityAnalysis # Null
  /\ ~isGeneratingPdf
  /\ InFlight("export") = 0

\* C14: a failed analysis call leaves the stored image in place, and a
\* failed zoom fetch leaves image, zoom level and analysis as they were.
AnalysisFails(e) == e.kind = "submit" /\ e.op = "generate" /\ e.ret.state = "rejected"
ZoomFails(e) == e.kind = "zoom" /\ e.ret.state = "rejected"
C14_FailedAnalysisKeepsOwnImage ==
  [][AnalysisFails(ev') => \E t \in SubmitTasks : t.pc = "generate" /\ aerialImage' = t.imageUrl]_vars

\* C15: a reset cancels nothing, and a zoom response that arrives while
\* WorkflowState is INPUT is still written: its image on success, its
\* message on failure.
C15_StaleZoomWritten ==
  [][/\ ev'.op = "handleReset" => tasks' = tasks
     /\ (ZoomSucceeds(ev') /\ step = INPUT) =>
          (step' = INPUT /\ aerialImage' = ev'.ret.value /\ aerialImage' # Null)
     /\ (ZoomFails(ev') /\ step = INPUT) =>
          (step' = INPUT /\ error' = ev'.ret.value.message /\ error' # "")]_vars

C15_Witness ==
  /\ ZoomSucceeds(ev)
  /\ step = INPUT
  /\ aerialImage # Null
  /\ aerialImage.address # location

\* C16: a geocode response with status REQUEST_DENIED makes the Imagery
\* Client throw the denied-error kind, and no static map request is issued.
GeocodeStatus(e, status) == e.op = "geocode" /\ e.ret.resp.net = "ok" /\ e.ret.resp.status = status
C16_DeniedNeverFetchesImage ==
  [][GeocodeStatus(ev', "REQUEST_DENIED") =>
       /\ ev'.ret.state = "rejected"
       /\ ev'.ret.value.cls = "MapsRequestDeniedError"
       /\ ev'.issued = {}
       /\ BagCardinality(tasks') = BagCardinality(tasks) - 1
       /\ \A t \in BagToSet(tasks') : t.pc = "staticmap" => t \in BagToSet(tasks)]_vars

C16_Witness ==
  /\ GeocodeStatus(ev, "REQUEST_DENIED")
  /\ ev.kind = "submit"
  /\ ev.ret.value.cls = "MapsRequestDeniedError"
  /\ step = ERROR
  /\ InFlight("submit") = 0

\* C17: when a submission's geocode response has status ZERO_RESULTS the
\* stored error is the no-location message, WorkflowState is ERROR and the
\* image is absent.
C17_ZeroResults ==
  [][(ev'.kind = "submit" /\ GeocodeStatus(ev', "ZERO_RESULTS")) =>
       /\ error' = MSG_ZERO_RESULTS
       /\ step' = ERROR
       /\ aerialImage' = Null]_vars

\* The part of C17 about the message and the state alone.
C17_ZeroResultsMessage ==
  [][(ev'.kind = "submit" /\ GeocodeStatus(ev', "ZERO_RESULTS")) =>
       /\ error' = MSG_ZERO_RESULTS
       /\ step' = ERROR
       /\ aerialImage' = aerialImage]_vars

\* The failure messages the Imagery Client gives for a geocode status other than OK.
StatusMessages(status) ==
  CASE status = "ZERO_RESULTS" -> {MSG_ZERO_RESULTS}
    [] status = "REQUEST_DENIED" -> {MSG_REQUEST_DENIED, MSG_REQUEST_DENIED_GOOGLE}
    [] status = "OVER_QUERY_LIMIT" -> {MSG_OVER_QUERY_LIMIT}
    [] status = "INVALID_REQUEST" -> {MSG_INVALID_REQUEST}
    [] OTHER -> {MSG_UNKNOWN_STATUS}
GeocodeMessages ==
  {MSG_NETWORK, MSG_NO_LOCATION_DATA} \cup UNION {StatusMessages(s) : s \in Statuses \ {"OK"}}
GeocodeAnswered(e) == e.op = "geocode" /\ e.ret.resp.net = "ok"

\* C18 as stated: the static imagery request is issued if and only if the
\* geocode response status is OK.
C18_StaticIffStatusOK ==
  [][GeocodeAnswered(ev') => (("staticmap" \in ev'.issued) <=> ev'.ret.resp.status = "OK")]_vars

\* C18: the static imagery request is issued if and only if the geocode
\* response has status OK and carries a result; status OK without a result
\* ends the call with the no-location-data message, every other status with
\* the message of that status, the messages of different statuses differ,
\* and a failed imagery request gives a message no geocode failure gives.
C18_StaticIffOKWithResult ==
  [][/\ ev'.op = "geocode" =>
          (("staticmap" \in ev'.issued) <=>
             (GeocodeAnswered(ev') /\ ev'.ret.resp.status = "OK" /\ ev'.ret.resp.hasResult))
     /\ (GeocodeStatus(ev', "OK") /\ ~ev'.ret.resp.hasResult) =>
          (ev'.ret.state = "rejected" /\ ev'.ret.value.message = MSG_NO_LOCATION_DATA)
     /\ (GeocodeAnswered(ev') /\ ev'.ret.resp.status # "OK") =>
          /\ ev'.ret.state = "rejected"
          /\ ev'.ret.value.message \in StatusMessages(ev'.ret.resp.status)
          /\ \A s \in Statuses \ {"OK", ev'.ret.resp.status} :
                ev'.ret.value.message \notin StatusMessages(s)
     /\ (ev'.op = "staticmap" /\ ev'.ret.state = "rejected") =>
          (ev'.ret.value.message = MSG_STATIC_FAILED /\ MSG_STATIC_FAILED \notin GeocodeMessages)]_vars

C18_Witness ==
  /\ GeocodeStatus(ev, "OK")
  /\ ~ev.ret.resp.hasResult
  /\ ev.ret.state = "rejected"
  /\ ev.issued = {}
  /\ ev.kind = "submit"
  /\ error = MSG_NO_LOCATION_DATA

\* C19: a failed submission ends in ERROR; the stored error is the extended
\* remediation message exactly when the failure is the denied geocode
\* status, and the raw message of the failure in every other case.
SubmitFails(e) == e.kind = "submit" /\ e.ret.state = "rejected"
C19_SubmitFailureMessage ==
  [][SubmitFails(ev') =>
       /\ step' = ERROR
       /\ (error' = MSG_DETAILED_DENIED) <=> GeocodeStatus(ev', "REQUEST_DENIED")
       /\ ~GeocodeStatus(ev', "REQUEST_DENIED") => error' = ev'.ret.value.message
       /\ ev'.op = "staticmap" => error' = MSG_STATIC_FAILED
       /\ ev'.op = "generate" => error' = MSG_ANALYSIS_FAILED
       /\ (ev'.op = "geocode" /\ ~GeocodeStatus(ev', "REQUEST_DENIED")) => error' \in GeocodeMessages]_vars

C19_Witness ==
  /\ SubmitFails(ev)
  /\ GeocodeStatus(ev, "REQUEST_DENIED")
  /\ ev.ret.value.message = MSG_REQUEST_DENIED_GOOGLE
  /\ error = MSG_DETAILED_DENIED
  /\ step = ERROR

\* C20: when either key is missing the configuration screen is shown, no
\* submit, zoom, export or reset control exists, and no call was ever issued.
KeyMissing == ~env.VITE_API_KEY \/ ~env.VITE_MAPS_API_KEY
C20_NotConfigured ==
  KeyMissing =>
    /\ Screen = "ApiConfigurationMessage"
    /\ ~FormRendered /\ ~ZoomControlsRendered /\ ~ExportRendered /\ ~ResetRendered
    /\ tasks = EmptyBag
    /\ ev.issued = {}
    /\ ev.op = "init"

C20_Witness ==
  /\ env.VITE_API_KEY
  /\ ~env.VITE_MAPS_API_KEY
  /\ Screen = "ApiConfigurationMessage"
  /\ ~ENABLED Next

\* C21: the Imagery Client called without the maps key, and the Analysis
\* Client called without the analysis key, throw the not-configured error
\* and issue no network call.
C21_MissingKeyFailsFast ==
  [][/\ (ev'.op = "handleSubmit" /\ SubmitGuard /\ ~env.VITE_MAPS_API_KEY) =>
          /\ ev'.ret.state = "rejected"
          /\ ev'.ret.value.message = MSG_MAPS_KEY
          /\ ev'.issued = {}
          /\ tasks' = tasks
          /\ error' = MSG_MAPS_KEY
     /\ (ev'.op = "handleZoomChange" /\ ZoomGuard(ev'.arg) /\ ~env.VITE_MAPS_API_KEY) =>
          /\ ev'.ret.state = "rejected"
          /\ ev'.ret.value.message = MSG_MAPS_KEY
          /\ ev'.issued = {}
          /\ tasks' = tasks
     /\ (ev'.op = "staticmap" /\ ev'.kind = "submit" /\ ev'.ret.state = "resolved" /\ ~env.VITE_API_KEY) =>
          /\ ev'.issued = {}
          /\ error' = MSG_GEMINI_KEY
          /\ step' = ERROR
          /\ BagCardinality(tasks') = BagCardinality(tasks) - 1
          /\ \A t \in BagToSet(tasks') : t.pc # "generate"]_vars

C21_Witness ==
  /\ ~env.VITE_API_KEY
  /\ env.VITE_MAPS_API_KEY
  /\ ev.op = "staticmap"
  /\ ev.kind = "submit"
  /\ ev.ret.state = "resolved"
  /\ aerialImage = ev.ret.value
  /\ error = MSG_GEMINI_KEY
  /\ step = ERROR

C21_WitnessMapsKey ==
  /\ ~env.VITE_MAPS_API_KEY
  /\ ev.op = "handleSubmit"
  /\ ev.ret.state = "rejected"
  /\ error = MSG_MAPS_KEY
  /\ step = ERROR
  /\ tasks = EmptyBag

\* C22: no retry. A step issues at most one call; a geocode request is
\* issued only by an accepted submit or zoom handler, an imagery request
\* only on that flow's geocode answer, a generation request only on a
\* submission's image; a step in which a call fails issues nothing and
\* leaves one call fewer outstanding; only user actions add calls.
UserOps == {"handleSubmit", "handleZoomChange", "handleGenerateReport"}
C22_NoRetry ==
  [][/\ Cardinality(ev'.issued) <= 1
     /\ ("geocode" \in ev'.issued) => ev'.op \in {"handleSubmit", "handleZoomChange"}
     /\ ("staticmap" \in ev'.issued) => (ev'.op = "geocode" /\ ev'.ret.state = "none")
     /\ ("generate" \in ev'.issued) =>
          (ev'.op = "staticmap" /\ ev'.kind = "submit" /\ ev'.ret.state = "resolved")
     /\ ("pdf" \in ev'.issued) => ev'.op = "handleGenerateReport"
     /\ ev'.ret.state = "rejected" =>
          (ev'.issued = {} /\ BagCardinality(tasks') = BagCardinality(tasks) - 1)
     /\ BagCardinality(tasks') > BagCardinality(tasks) =>
          (ev'.op \in UserOps /\ BagCardinality(tasks') = BagCardinality(tasks) + 1)
     /\ ev'.op \notin UserOps =>
          BagCardinality(tasks') = BagCardinality(tasks) - (IF ev'.issued = {} THEN 1 ELSE 0) \/ ev'.op \in {"setLocation", "handleReset"}
     /\ InFlight("submit")' <= 1]_vars

C22_Witness ==
  /\ ev.op = "staticmap"
  /\ ev.kind = "submit"
  /\ ev.ret.state = "rejected"
  /\ ev.issued = {}
  /\ tasks = EmptyBag
  /\ step = ERROR

\* C23: the swatch drawn for placement i in the exported document has the
\* colour of the on-screen marker of placement i.
C23_SwatchMatchesMarker ==
  pdf.block = "placement" => pdf.fillColor = markerColor(pdf.drawn)

\* The part of C23 that holds: both colours are the palette entry at the
\* index modulo the length of the component's own palette, and they agree
\* for the first six placements.
C23_SwatchMatchesFirstSix ==
  pdf.block = "placement" =>
    /\ pdf.fillColor = pdfGenerator_MARKER_COLORS[(pdf.drawn % 6) + 1]
    /\ markerColor(pdf.drawn) = AerialView_MARKER_COLORS[(pdf.drawn % 23) + 1]
    /\ pdf.drawn < 6 => pdf.fillColor = markerColor(pdf.drawn)

\* C24: no text line is ever drawn below the bottom margin of its page.
C24_TextAboveBottomMargin ==
  pdf.block # "none" => pdf.textY <= pageHeight - Mm(MARGIN)

\* The part of C24 that holds: every block starts on a page with room for
\* the space it asked for, whenever that space fits on a page at all, and
\* headings and overview lines are always above the bottom margin.
C24_BlocksStartWithRoom ==
  /\ pdf.block \in {"heading", "overviewLine"} => pdf.textY <= pageHeight - Mm(MARGIN)
  /\ pdf.block \in {"heading", "overviewLine", "placement", "summary"} =>
       (pdf.textTop >= Mm(MARGIN) /\ pdf.textTop <= pageHeight - Mm(MARGIN))

\* C25: in every reachable state the stored SecurityAnalysis is present if
\* and only if WorkflowState is COMPLETE.
C25_AnalysisIffComplete ==
  (securityAnalysis # Null) <=> (step = COMPLETE)

C25_Witness ==
  /\ ev.kind = "zoom"
  /\ ev.op = "staticmap"
  /\ ev.ret.state = "resolved"
  /\ ev.from = COMPLETE
  /\ step = COMPLETE
  /\ securityAnalysis # Null
  /\ aerialImage.address # location

\* C26: whenever an image is stored, the recorded zoom level is the zoom
\* with which that image was requested from the Imagery Client.
C26_ZoomLevelOfStoredImage ==
  aerialImage # Null => zoomLevel = aerialImage.zoom

\* The part of C26 that holds: a zoom response stores its image and its
\* zoom level together.
C26_ZoomStoresBoth ==
  [][ZoomSucceeds(ev') => (aerialImage' = ev'.ret.value /\ zoomLevel' = aerialImage'.zoom)]_vars

\* C27: whenever WorkflowState is COMPLETE the stored image was fetched for
\* the address the session holds, the one the stored analysis was made for.
C27_ImageOfSessionAddress ==
  step = COMPLETE => (aerialImage # Null /\ aerialImage.address = location)

\* The part of C27 that holds: on reaching COMPLETE the analysis is the one
\* requested for the session's address, an image is stored, and the address
\* does not change while COMPLETE lasts.
C27_AnalysisOfSessionAddress ==
  [][/\ (step' = COMPLETE /\ step # COMPLETE) =>
          /\ \E t \in SubmitTasks : t.pc = "generate" /\ t.location = location'
          /\ aerialImage' # Null
     /\ (step = COMPLETE /\ step' = COMPLETE) => location' = location]_vars

\* C28: whenever WorkflowState is ERROR the stored error is non-empty, and
\* it stays unchanged for as long as ERROR lasts.
C28_ErrorStableInError ==
  [][/\ step' = ERROR => error' # ""
     /\ (step = ERROR /\ step' = ERROR) => error' = error]_vars

\* The part of C28 that holds: the error is non-empty in ERROR, no zoom or
\* export handler starts in ERROR, and nothing empties the error there.
C28_ErrorNonEmptyInError ==
  [][/\ step' = ERROR => error' # ""
     /\ ev'.op \in {"handleZoomChange", "handleGenerateReport"} => step # ERROR]_vars

\* C29: the image-loading flag is true exactly while a zoom-triggered
\* Imagery Client call is outstanding, the exporting flag exactly while an
\* exporter call is outstanding; each is released when its call succeeds
\* or fails, and neither is changed by submit or reset.
C29_FlagsTrackCalls ==
  [][/\ isImageLoading' <=> (InFlight("zoom")' > 0)
     /\ isGeneratingPdf' <=> (InFlight("export")' > 0)
     /\ InFlight("zoom")' <= 1
     /\ InFlight("export")' <= 1
     /\ (ev'.kind = "zoom" /\ ev'.ret.state \in {"resolved", "rejected"}) => ~isImageLoading'
     /\ (ev'.kind = "export" /\ ev'.ret.state \in {"resolved", "rejected"}) => ~isGeneratingPdf'
     /\ ev'.op \in {"handleSubmit", "handleReset"} => UNCHANGED <<isImageLoading, isGeneratingPdf>>
     /\ ev'.kind = "submit" => UNCHANGED <<isImageLoading, isGeneratingPdf>>]_vars

C29_Witness ==
  /\ ZoomFails(ev)
  /\ ~isImageLoading
  /\ InFlight("zoom") = 0
  /\ isGeneratingPdf
  /\ InFlight("export") = 1
  /\ step = INPUT

\* C30: when every outstanding call is eventually answered, a session in
\* FETCHING_IMAGE or ANALYZING eventually reaches COMPLETE or ERROR.
C30_SubmitTerminates ==
  (step \in {FETCHING_IMAGE, ANALYZING}) ~> (step \in {COMPLETE, ERROR})

C30_Witness ==
  /\ step = COMPLETE
  /\ ev.kind = "submit"
  /\ ev.op = "generate"
  /\ ev.from = ANALYZING
  /\ InFlight("submit") = 0
  /\ InFlight("zoom") = 1

====
